---- MODULE Spec2Model ----
(***************************************************************************)
(* GitConsensus, gitconsensus/repository.py: the vote tally built by       *)
(* PullRequest.__init__ from the reactions of a pull request, the          *)
(* contributor cache of Repository.isContributor, and the criteria of      *)
(* Consensus (hasQuorum, hasVotes, hasAged, validate).                     *)
(***************************************************************************)
EXTENDS Integers, Sequences, FiniteSets, TLC

\* ------------------------------------------------------------------ bounds
MaxEvents == 3
MaxQuorum == 3
MaxDen == 3
MaxCalls == 3
MaxHours == 30

\* ------------------------------------------------- program constants
SecondsPerDay == 86400
HoursDivisor == 360

\* ------------------------------------------------------------ input sets
Users == {"alice", "bob", "carol"}
Contents == {"+1", "-1", "confused", "heart"}
Flags == {"absent", "false", "true"}

VARIABLES
    rules,            \* Repository.rules: the policy, or False (loaded = FALSE)
    collaborators,    \* the platform's answer to is_collaborator, as a set
    contributor_list, \* what the platform's iter_contributors returns
    contributors,     \* Repository.contributors: False, or the cached list
    fetches,          \* number of iter_contributors calls made so far
    calls,            \* number of direct Repository.isContributor calls
    mergeable,        \* pr.pr.mergeable
    labels,           \* the names of the issue's labels
    available,        \* the (user, content) pairs the issue's reactions are made of
    openedSeconds,    \* now - created_at, in seconds
    commitSeconds,    \* now - date of the last commit, in seconds
    reactions,        \* the reactions the loop of __init__ has consumed
    yes, no, abstain, users, doubles,
    pc,               \* "init": in the loop of __init__; "built"; "raised"
    raised,           \* the exception that ended __init__, or "none"
    ret               \* the last call made on the built objects and its result

env == <<rules, collaborators, contributor_list, mergeable, labels, available,
         openedSeconds, commitSeconds>>
tally == <<yes, no, abstain, users, doubles>>
vars == <<rules, collaborators, contributor_list, contributors, fetches, calls,
          mergeable, labels, available, openedSeconds, commitSeconds, reactions,
          yes, no, abstain, users, doubles, pc, raised, ret>>

\* ------------------------------------------------------ python list helpers
InList(x, s) == \E i \in DOMAIN s : s[i] = x

RECURSIVE Remove(_, _)
\* list.remove(x): drops the first occurrence of x
Remove(s, x) ==
    IF s = <<>> THEN <<>>
    ELSE IF Head(s) = x THEN Tail(s)
    ELSE <<Head(s)>> \o Remove(Tail(s), x)

RemoveIfIn(s, x) == IF InList(x, s) THEN Remove(s, x) ELSE s

\* ------------------------------------------------------------- the policy
On(flag) == flag = "true"

NoRules ==
    [loaded |-> FALSE,
     collaborators_only |-> "absent", contributors_only |-> "absent",
     whitelist |-> [present |-> FALSE, names |-> {}],
     prevent_doubles |-> "absent",
     quorum |-> [present |-> FALSE, value |-> 0],
     threshold |-> [present |-> FALSE, num |-> 0, den |-> 1],
     mergedelay |-> [present |-> FALSE, value |-> 0]]

OpenRules == [NoRules EXCEPT !.loaded = TRUE]

\* ------------------------------------------------ Repository.isContributor
NotCached == [isList |-> FALSE, logins |-> {}]

\* `not self.contributors`: True for False and for an empty list
Falsy(c) == ~c.isList \/ c.logins = {}

ContributorsAfter(c, platform) ==
    IF Falsy(c) THEN [isList |-> TRUE, logins |-> platform] ELSE c

FetchesAfter(c, n) == IF Falsy(c) THEN n + 1 ELSE n

isContributor(c, platform, username) ==
    username \in ContributorsAfter(c, platform).logins

\* ---------------------------------------------- PullRequest.__init__ loop
Machine ==
    [yes |-> yes, no |-> no, abstain |-> abstain, users |-> users,
     doubles |-> doubles, contributors |-> contributors, fetches |-> fetches,
     raised |-> raised]

EmptyMachine ==
    [yes |-> <<>>, no |-> <<>>, abstain |-> <<>>, users |-> <<>>,
     doubles |-> <<>>, contributors |-> NotCached, fetches |-> 0,
     raised |-> "none"]

\* lines 136-146: the vote is recorded in its column and the voter in users
Record(m, username, content) ==
    IF content \notin {"+1", "-1", "confused"} THEN m
    ELSE [m EXCEPT
            !.yes = IF content = "+1" THEN Append(@, username) ELSE @,
            !.no = IF content = "-1" THEN Append(@, username) ELSE @,
            !.abstain = IF content = "confused" THEN Append(@, username) ELSE @,
            !.users = IF InList(username, @) THEN @ ELSE Append(@, username)]

\* mutant of Exclude: the first vote stays counted, only later ones are dropped
ExcludeKeepsFirstVote(m, username) == [m EXCEPT !.doubles = Append(@, username)]

\* lines 123-134: a second reaction of a voter in users excludes the voter
Exclude(m, username) ==
    [m EXCEPT
        !.doubles = Append(@, username),
        !.users = Remove(@, username),
        !.yes = RemoveIfIn(@, username),
        !.no = RemoveIfIn(@, username),
        !.abstain = RemoveIfIn(@, username)]

\* mutant of DoublesStep: prevent_doubles is never honoured
DoublesStepNeverExcludes(m, rl, username, content) == Record(m, username, content)

DoublesStep(m, rl, username, content) ==
    IF On(rl.prevent_doubles) /\ InList(username, m.users)
    THEN Exclude(m, username)
    ELSE Record(m, username, content)

\* lines 119-121
WhitelistStep(m, rl, username, content) ==
    IF rl.whitelist.present /\ username \notin rl.whitelist.names
    THEN m
    ELSE DoublesStep(m, rl, username, content)

\* lines 115-117: the lookup fills the cache also when the voter is skipped
ContributorsStep(m, rl, platform, username, content) ==
    IF On(rl.contributors_only)
    THEN LET looked == [m EXCEPT
                          !.contributors = ContributorsAfter(@, platform),
                          !.fetches = FetchesAfter(m.contributors, @)]
         IN  IF isContributor(m.contributors, platform, username)
             THEN WhitelistStep(looked, rl, username, content)
             ELSE looked
    ELSE WhitelistStep(m, rl, username, content)

\* lines 111-113: the name isCollaborator is not defined in the module scope
CollaboratorsStep(m, rl, platform, username, content) ==
    IF On(rl.collaborators_only)
    THEN [m EXCEPT !.raised = "NameError"]
    ELSE ContributorsStep(m, rl, platform, username, content)

\* lines 104-146: one pass of the loop body
LoopBody(m, rl, platform, username, content) ==
    IF InList(username, m.doubles) THEN m
    ELSE IF ~rl.loaded THEN [m EXCEPT !.raised = "TypeError"]
    ELSE CollaboratorsStep(m, rl, platform, username, content)

RECURSIVE Run(_, _, _, _)
\* the loop over a whole list of reactions, stopping at an exception
Run(m, rl, platform, rs) ==
    IF rs = <<>> \/ m.raised # "none" THEN m
    ELSE Run(LoopBody(m, rl, platform, Head(rs).user, Head(rs).content),
             rl, platform, Tail(rs))

\* ------------------------------------------------------ PullRequest.isBlocked
UpperCase == <<"A","B","C","D","E","F","G","H","I","J","K","L","M",
               "N","O","P","Q","R","S","T","U","V","W","X","Y","Z">>
LowerCase == <<"a","b","c","d","e","f","g","h","i","j","k","l","m",
               "n","o","p","q","r","s","t","u","v","w","x","y","z">>

\* str.lower() on one character
LowerChar(ch) ==
    IF \E i \in DOMAIN UpperCase : UpperCase[i] = ch
    THEN LowerCase[CHOOSE i \in DOMAIN UpperCase : UpperCase[i] = ch]
    ELSE ch

\* str.lower(): a label is the tuple of its characters
Lower(label) == [i \in DOMAIN label |-> LowerChar(label[i])]

wip == <<"w","i","p">>
dontmerge == <<"d","o","n","t","m","e","r","g","e">>

\* mutant of isBlocked: the labels are compared as they are spelled
isBlockedCaseSensitive(ls) == InList(wip, ls) \/ InList(dontmerge, ls)

isBlocked(ls) ==
    LET lowered == [i \in DOMAIN ls |-> Lower(ls[i])]
    IN  IF InList(wip, lowered) THEN TRUE
        ELSE IF InList(dontmerge, lowered) THEN TRUE
        ELSE FALSE

\* ------------------------------------------------------------- aging
\* timedelta.seconds is the seconds field of the delta, days left out;
\* the elapsed times drawn are whole hours, so the division is exact
hoursSince(elapsedSeconds) == (elapsedSeconds % SecondsPerDay) \div HoursDivisor

hoursSinceLastUpdate(opened, commit) ==
    IF hoursSince(opened) < hoursSince(commit)
    THEN hoursSince(opened)
    ELSE hoursSince(commit)

\* ------------------------------------------------------------- Consensus
isMergeable(m) == IF ~m THEN FALSE ELSE TRUE

\* mutant of hasQuorum: the excluded double-voters count as voters
hasQuorumCountsDoubles(rl, m) ==
    IF rl.quorum.present /\ Len(m.users) + Len(m.doubles) < rl.quorum.value
    THEN FALSE
    ELSE TRUE

hasQuorum(rl, m) ==
    IF rl.quorum.present /\ Len(m.users) < rl.quorum.value THEN FALSE ELSE TRUE

\* mutant of hasVotes: a ratio equal to the threshold fails
hasVotesStrict(rl, m) ==
    IF rl.threshold.present
    THEN LET total == Len(m.yes) + Len(m.no)
         IN  IF total <= 0 THEN FALSE
             ELSE IF Len(m.yes) * rl.threshold.den <= rl.threshold.num * total
                  THEN FALSE
                  ELSE TRUE
    ELSE TRUE

\* ratio < threshold, with ratio = yes/total and threshold = num/den
hasVotes(rl, m) ==
    IF rl.threshold.present
    THEN LET total == Len(m.yes) + Len(m.no)
         IN  IF total <= 0 THEN FALSE
             ELSE IF Len(m.yes) * rl.threshold.den < rl.threshold.num * total
                  THEN FALSE
                  ELSE TRUE
    ELSE TRUE

hasAged(rl, opened, commit) ==
    IF rl.mergedelay.present
       /\ hoursSinceLastUpdate(opened, commit) < rl.mergedelay.value
    THEN FALSE
    ELSE TRUE

ConsensusValidate(rl, m, ls, mrg, opened, commit) ==
    IF isBlocked(ls) THEN FALSE
    ELSE IF ~isMergeable(mrg) THEN FALSE
    ELSE IF ~hasQuorum(rl, m) THEN FALSE
    ELSE IF ~hasVotes(rl, m) THEN FALSE
    ELSE IF ~hasAged(rl, opened, commit) THEN FALSE
    ELSE TRUE

\* PullRequest.validate: no policy, no evaluation
PullRequestValidate(rl, m, ls, mrg, opened, commit) ==
    IF ~rl.loaded
    THEN [fn |-> "validate", value |-> FALSE, consensus |-> FALSE]
    ELSE [fn |-> "validate",
          value |-> ConsensusValidate(rl, m, ls, mrg, opened, commit),
          consensus |-> TRUE]

NoCall == [fn |-> "none", value |-> FALSE, consensus |-> FALSE]

\* ---------------------------------------------------------------- actions
\* one iteration of the loop of PullRequest.__init__
ProcessReaction ==
    /\ pc = "init"
    /\ Len(reactions) < MaxEvents
    /\ \E r \in available :
         LET m == LoopBody(Machine, rules, contributor_list, r[1], r[2])
         IN  /\ reactions' = Append(reactions, [user |-> r[1], content |-> r[2]])
             /\ yes' = m.yes
             /\ no' = m.no
             /\ abstain' = m.abstain
             /\ users' = m.users
             /\ doubles' = m.doubles
             /\ contributors' = m.contributors
             /\ fetches' = m.fetches
             /\ raised' = m.raised
             /\ pc' = IF m.raised = "none" THEN "init" ELSE "raised"
    /\ UNCHANGED <<env, calls, ret>>

\* the list of reactions is exhausted: the constructor returns
FinishInit ==
    /\ pc = "init"
    /\ pc' = "built"
    /\ UNCHANGED <<env, tally, reactions, contributors, fetches, calls, raised, ret>>

Validate ==
    /\ pc = "built"
    /\ ret' = PullRequestValidate(rules, Machine, labels, mergeable,
                                  openedSeconds, commitSeconds)
    /\ UNCHANGED <<env, tally, reactions, contributors, fetches, calls, raised, pc>>

HasQuorum ==
    /\ pc = "built"
    /\ rules.loaded
    /\ ret' = [fn |-> "hasQuorum", value |-> hasQuorum(rules, Machine),
               consensus |-> TRUE]
    /\ UNCHANGED <<env, tally, reactions, contributors, fetches, calls, raised, pc>>

HasVotes ==
    /\ pc = "built"
    /\ rules.loaded
    /\ ret' = [fn |-> "hasVotes", value |-> hasVotes(rules, Machine),
               consensus |-> TRUE]
    /\ UNCHANGED <<env, tally, reactions, contributors, fetches, calls, raised, pc>>

HasAged ==
    /\ pc = "built"
    /\ rules.loaded
    /\ ret' = [fn |-> "hasAged",
               value |-> hasAged(rules, openedSeconds, commitSeconds),
               consensus |-> TRUE]
    /\ UNCHANGED <<env, tally, reactions, contributors, fetches, calls, raised, pc>>

\* a direct call of Repository.isContributor, no pull request being built
IsContributorCall ==
    /\ pc = "init"
    /\ reactions = <<>>
    /\ calls < MaxCalls
    /\ \E u \in Users :
         /\ ret' = [fn |-> "isContributor",
                    value |-> isContributor(contributors, contributor_list, u),
                    consensus |-> FALSE]
         /\ contributors' = ContributorsAfter(contributors, contributor_list)
         /\ fetches' = FetchesAfter(contributors, fetches)
    /\ calls' = calls + 1
    /\ UNCHANGED <<env, tally, reactions, raised, pc>>

\* ------------------------------------------------------------ initial states
\* an elapsed time of h hours, in seconds
Hours(h) == h * 3600

AllReactions == Users \X Contents

\* the state right after Repository.__init__ and lines 98-102
Constructed ==
    /\ contributors = NotCached
    /\ fetches = 0
    /\ calls = 0
    /\ reactions = <<>>
    /\ yes = <<>>
    /\ no = <<>>
    /\ abstain = <<>>
    /\ users = <<>>
    /\ doubles = <<>>
    /\ pc = "init"
    /\ raised = "none"
    /\ ret = NoCall

EligibilityPolicies ==
    {NoRules} \cup
    {[OpenRules EXCEPT !.collaborators_only = c, !.contributors_only = k,
                       !.whitelist = w, !.prevent_doubles = d] :
        c \in {"absent", "true"}, k \in {"absent", "true"},
        w \in {[present |-> FALSE, names |-> {}],
               [present |-> TRUE, names |-> {"alice", "bob"}]},
        d \in Flags}

Init ==
    /\ rules \in EligibilityPolicies
    /\ collaborators \in
         (IF On(rules.collaborators_only) THEN {{}, {"alice"}} ELSE {{}})
    /\ contributor_list \in
         (IF On(rules.contributors_only) THEN {{}, {"alice", "carol"}} ELSE {{}})
    /\ mergeable = TRUE
    /\ labels = <<>>
    /\ available = AllReactions
    /\ openedSeconds = Hours(10)
    /\ commitSeconds = Hours(2)
    /\ Constructed

Next == ProcessReaction \/ FinishInit \/ Validate

Spec == Init /\ [][Next]_vars

\* ------------------------------------------------- the tally and its inputs
Mapped(content) == content \in {"+1", "-1", "confused"}

Columns(u) ==
    {c \in {"yes", "no", "abstain"} :
        \/ c = "yes" /\ InList(u, yes)
        \/ c = "no" /\ InList(u, no)
        \/ c = "abstain" /\ InList(u, abstain)}

TallyOf(m) == <<m.yes, m.no, m.abstain, m.users, m.doubles>>

\* lines 111-121: the voter reaches the recording part of the loop body
Eligible(rl, platform, u) ==
    /\ rl.loaded
    /\ ~On(rl.collaborators_only)
    /\ On(rl.contributors_only) => u \in platform
    /\ rl.whitelist.present => u \in rl.whitelist.names

\* u reacted twice with two different votes among +1, -1, confused
VotedTwice(u) ==
    \E i, j \in DOMAIN reactions :
        /\ i < j
        /\ reactions[i].user = u
        /\ reactions[j].user = u
        /\ Mapped(reactions[i].content)
        /\ Mapped(reactions[j].content)
        /\ reactions[i].content # reactions[j].content

Event(u, c) == [user |-> u, content |-> c]

\* C1 as stated: under every policy each voter is in at most one of yes, no,
\* abstain, and no voter is both in users and in doubles.
C1_OneColumnAnyPolicy ==
    \A u \in Users :
        /\ Cardinality(Columns(u)) <= 1
        /\ ~(InList(u, users) /\ InList(u, doubles))

\* C1, amended: when prevent_doubles is set each voter is in at most one of
\* yes, no, abstain; under every policy no voter is both in users and doubles.
C1_OneColumnUnderPreventDoubles ==
    \A u \in Users :
        /\ On(rules.prevent_doubles) => Cardinality(Columns(u)) <= 1
        /\ ~(InList(u, users) /\ InList(u, doubles))

C1_Witness ==
    /\ On(rules.prevent_doubles)
    /\ pc = "built"
    /\ doubles = <<"alice">>
    /\ users = <<"bob">>
    /\ Columns("bob") = {"no"}

\* C2: with prevent_doubles set, an eligible voter who cast two differing
\* votes is in none of yes, no, abstain, users and is in doubles, whatever
\* follows; [(alice,+1),(bob,-1),(alice,-1)] gives yes = {}, no = {bob},
\* doubles = {alice}, users = {bob}.
C2_DoubleVoteVoidsAll ==
    /\ \A u \in Users :
         (On(rules.prevent_doubles) /\ Eligible(rules, contributor_list, u)
            /\ VotedTwice(u))
         => /\ Columns(u) = {}
            /\ ~InList(u, users)
            /\ InList(u, doubles)
    /\ (rules = [OpenRules EXCEPT !.prevent_doubles = "true"]
          /\ reactions = <<Event("alice", "+1"), Event("bob", "-1"),
                           Event("alice", "-1")>>)
       => /\ yes = <<>>
          /\ no = <<"bob">>
          /\ doubles = <<"alice">>
          /\ users = <<"bob">>

C2_Witness ==
    /\ On(rules.prevent_doubles)
    /\ rules.whitelist.present
    /\ pc = "built"
    /\ Len(reactions) = 3
    /\ reactions[3].user = "alice"
    /\ Eligible(rules, contributor_list, "alice")
    /\ \E i, j \in 1..2 :
         /\ i < j
         /\ reactions[i].user = "alice"
         /\ reactions[j].user = "alice"
         /\ Mapped(reactions[i].content)
         /\ Mapped(reactions[j].content)
         /\ reactions[i].content # reactions[j].content
    /\ doubles = <<"alice">>

\* C3: the tally equals the tally of the same reactions with those whose
\* content is not +1, -1 or confused deleted.
C3_UnmappedInvisible ==
    LET kept == SelectSeq(reactions, LAMBDA r : Mapped(r.content))
    IN  TallyOf(Machine) =
        TallyOf(Run(EmptyMachine, rules, contributor_list, kept))

\* the voter passes every enabled eligibility rule, as the policy words them
PassesRules(u) ==
    /\ On(rules.collaborators_only) => u \in collaborators
    /\ On(rules.contributors_only) => u \in contributor_list
    /\ rules.whitelist.present => u \in rules.whitelist.names

WithoutEligibility ==
    [rules EXCEPT !.collaborators_only = "absent",
                  !.contributors_only = "absent",
                  !.whitelist = [present |-> FALSE, names |-> {}]]

\* C8: with a policy, reactions of voters failing an enabled rule leave the
\* tally as it is, those of the other voters are tallied, and nothing raises.
C8_EligibilitySkipsSilently ==
    rules.loaded =>
        /\ raised = "none"
        /\ LET passing == SelectSeq(reactions, LAMBDA r : PassesRules(r.user))
           IN  TallyOf(Machine) =
               TallyOf(Run(EmptyMachine, WithoutEligibility, contributor_list,
                           passing))

\* C9: without a policy the tally is built without an exception, validate
\* returns False and the evaluator is not invoked.
C9_NoPolicyNoError ==
    ~rules.loaded =>
        /\ raised = "none"
        /\ ret.fn = "validate" => (~ret.value /\ ~ret.consensus)

\* ------------------------------------------ Repository.isContributor alone
InitContributors ==
    /\ rules \in {[OpenRules EXCEPT !.contributors_only = k] :
                    k \in {"absent", "true"}}
    /\ collaborators = {}
    /\ contributor_list \in SUBSET Users
    /\ mergeable = TRUE
    /\ labels = <<>>
    /\ available = Users \X {"+1"}
    /\ openedSeconds = Hours(10)
    /\ commitSeconds = Hours(2)
    /\ Constructed

NextContributors == IsContributorCall \/ ProcessReaction \/ FinishInit

SpecContributors == InitContributors /\ [][NextContributors]_vars

\* C10: the contributor list is fetched from the platform at most once.
C10_FetchedAtMostOnce == fetches <= 1

\* ------------------------------------------------------ Consensus.hasQuorum
Votes == Users \X {"+1", "-1", "confused"}

InitQuorum ==
    /\ rules \in
         {[OpenRules EXCEPT !.prevent_doubles = d, !.quorum = q] :
            d \in {"absent", "true"},
            q \in {[present |-> FALSE, value |-> 0]} \cup
                  {[present |-> TRUE, value |-> v] : v \in 0..MaxQuorum}}
    /\ collaborators = {}
    /\ contributor_list = {}
    /\ mergeable = TRUE
    /\ labels = <<>>
    /\ available = Votes
    /\ openedSeconds = Hours(10)
    /\ commitSeconds = Hours(2)
    /\ Constructed

NextQuorum == ProcessReaction \/ FinishInit \/ HasQuorum

SpecQuorum == InitQuorum /\ [][NextQuorum]_vars

Range(s) == {s[i] : i \in DOMAIN s}

\* the voters with a counted vote: double-voters are in none of the columns
Voters == Range(yes) \cup Range(no) \cup Range(abstain)

\* C5: with a quorum configured hasQuorum is true exactly when the number of
\* distinct voters with a counted vote is at least the quorum; without the
\* quorum key it is true for every number of voters, zero included.
C5_Quorum ==
    ret.fn = "hasQuorum" =>
        ret.value = (rules.quorum.present
                        => Cardinality(Voters) >= rules.quorum.value)

C5_Witness ==
    /\ ret.fn = "hasQuorum"
    /\ rules.quorum = [present |-> TRUE, value |-> 3]
    /\ Cardinality(Voters) = 3
    /\ ret.value

\* ------------------------------------------------------- Consensus.hasVotes
Thresholds ==
    {[present |-> FALSE, num |-> 0, den |-> 1]} \cup
    {[present |-> TRUE, num |-> n, den |-> d] :
        n \in 0..MaxDen, d \in 1..MaxDen}

InitVotes ==
    /\ rules \in
         {[OpenRules EXCEPT !.prevent_doubles = d, !.threshold = t] :
            d \in {"absent", "true"},
            t \in {x \in Thresholds : x.num <= x.den}}
    /\ collaborators = {}
    /\ contributor_list = {}
    /\ mergeable = TRUE
    /\ labels = <<>>
    /\ available = Votes
    /\ openedSeconds = Hours(10)
    /\ commitSeconds = Hours(2)
    /\ Constructed

NextVotes == ProcessReaction \/ FinishInit \/ HasVotes

SpecVotes == InitVotes /\ [][NextVotes]_vars

\* C4: with a threshold configured and total = |yes| + |no|, hasVotes is
\* false when total = 0 and otherwise true exactly when yes/total is at least
\* the threshold; without a threshold it is true.
C4_Threshold ==
    ret.fn = "hasVotes" =>
        LET total == Len(yes) + Len(no)
            t == rules.threshold
        IN  ret.value =
              (t.present => (total # 0 /\ Len(yes) * t.den >= t.num * total))

C4_Witness ==
    /\ ret.fn = "hasVotes"
    /\ rules.threshold = [present |-> TRUE, num |-> 1, den |-> 2]
    /\ Len(yes) = 1
    /\ Len(no) = 1
    /\ Len(abstain) = 1
    /\ ret.value

\* -------------------------------------------------------- Consensus.hasAged
InitAged ==
    /\ rules \in
         {[OpenRules EXCEPT !.mergedelay = d] :
            d \in {[present |-> FALSE, value |-> 0],
                   [present |-> TRUE, value |-> 5],
                   [present |-> TRUE, value |-> 24]}}
    /\ collaborators = {}
    /\ contributor_list = {}
    /\ mergeable = TRUE
    /\ labels = <<>>
    /\ available = {<<"alice", "+1">>}
    /\ openedSeconds \in {Hours(h) : h \in 0..MaxHours}
    /\ commitSeconds \in {Hours(h) : h \in 0..MaxHours}
    /\ Constructed

NextAged == ProcessReaction \/ FinishInit \/ HasAged

SpecAged == InitAged /\ [][NextAged]_vars

Min(a, b) == IF a < b THEN a ELSE b

\* the hours in an elapsed time given in seconds
HoursElapsed(seconds) == seconds \div 3600

\* C7: with mergedelay configured hasAged is true exactly when the smaller
\* of the hours since the opening and the hours since the last commit is at
\* least mergedelay.
C7_EffectiveAge ==
    (ret.fn = "hasAged" /\ rules.mergedelay.present) =>
        ret.value =
          (Min(HoursElapsed(openedSeconds), HoursElapsed(commitSeconds))
             >= rules.mergedelay.value)

\* ------------------------------------------------------- Consensus.validate
WIP == <<"W","I","P">>
DontMerge == <<"D","o","n","t","M","e","r","g","e">>
bug == <<"b","u","g">>

LabelLists == {<<>>, <<bug>>, <<WIP>>, <<bug, wip>>, <<DontMerge, bug>>}

InitValidate ==
    /\ rules \in
         {[OpenRules EXCEPT !.quorum = q, !.threshold = t, !.mergedelay = d] :
            q \in {[present |-> FALSE, value |-> 0],
                   [present |-> TRUE, value |-> 2]},
            t \in {[present |-> FALSE, num |-> 0, den |-> 1],
                   [present |-> TRUE, num |-> 1, den |-> 2]},
            d \in {[present |-> FALSE, value |-> 0],
                   [present |-> TRUE, value |-> 5]}}
    /\ collaborators = {}
    /\ contributor_list = {}
    /\ mergeable \in BOOLEAN
    /\ labels \in LabelLists
    /\ available = {"alice", "bob"} \X {"+1", "-1"}
    /\ openedSeconds = Hours(10)
    /\ commitSeconds \in {Hours(0), Hours(2)}
    /\ Constructed

NextValidate == ProcessReaction \/ FinishInit \/ Validate

SpecValidate == InitValidate /\ [][NextValidate]_vars

\* a label list holding wip or dontmerge in some letter case
HasBlockingLabel == labels \in {<<WIP>>, <<bug, wip>>, <<DontMerge, bug>>}

\* C6: validate is true exactly when the request is not blocked, is
\* mergeable, has the quorum, has the votes and has aged; a wip or dontmerge
\* label in any letter case makes it false.
C6_ValidateIsConjunction ==
    ret.fn = "validate" =>
        /\ ret.value =
             (/\ ~isBlocked(labels)
              /\ isMergeable(mergeable)
              /\ hasQuorum(rules, Machine)
              /\ hasVotes(rules, Machine)
              /\ hasAged(rules, openedSeconds, commitSeconds))
        /\ HasBlockingLabel => ~ret.value

C6_Witness ==
    /\ ret.fn = "validate"
    /\ labels = <<WIP>>
    /\ mergeable
    /\ rules.quorum.present
    /\ rules.threshold.present
    /\ rules.mergedelay.present
    /\ hasQuorum(rules, Machine)
    /\ hasVotes(rules, Machine)
    /\ hasAged(rules, openedSeconds, commitSeconds)
    /\ ~ret.value

====
